---------------------------- MODULE Spec2Model ----------------------------
(***************************************************************************)
(* The user-file ingestion pipeline of baserow.core.user_files.handler:    *)
(* UserFileHandler.upload_user_file, upload_user_file_by_url,              *)
(* generate_unique and generate_and_save_file_thumbnails, run by several   *)
(* concurrent requests against one UserFile table and one blob storage,    *)
(* and the regenerate_user_file_thumbnails management command.             *)
(***************************************************************************)
EXTENDS Naturals, Integers, Sequences, FiniteSets, TLC

VARIABLES
    proc,       \* per request: the locals and program point of its handler call
    userFiles,  \* the UserFile table: a sequence of rows in id order
    storage,    \* the blob storage: the set of saved blobs, one per path
    cmd,        \* the locals of the regenerate_user_file_thumbnails command
    derive      \* one resolution of a thumbnail size: its inputs and result

vars == <<proc, userFiles, storage, cmd, derive>>

(***************************************************************************)
(* Bounds of the model and configuration values.                           *)
(***************************************************************************)
\* generate_unique's max_tries parameter (1000 by default), scaled down.
MaxTries == 2
\* settings.BASEROW_FILE_UPLOAD_SIZE_LIMIT_MB, scaled down (a byte count).
SizeLimit == 1
\* The largest body chunk response.iter_content hands over.
MaxChunk == 2
\* The command's buffer_size (100), scaled down.
BufferSize == 2
\* The largest UserFile table the command is run on.
MaxRecords == 3
\* The largest of the small source widths and heights.
MaxDim == 3
\* The largest of the small fixed target dimensions.
MaxTarget == 3
\* The most rows other requests create while the command runs.
MaxCreates == 1

Procs == {"p1", "p2"}
\* The request that runs on its own in SpecByUrl.
UrlProcs == {"p1"}
\* What random_string(length) can return.
Uniques == {"u1", "u2"}
\* What sha256_hash(stream) can return.
Hashes == {"h1"}
\* The byte counts of the uploaded streams.
Sizes == SizeLimit..(SizeLimit + 2)
\* The uploaded file names (and the last path segment of the URLs).
FileNames == {"photo.png", "SCAN.PDF", "slides.pptx"}
\* A dimension of a thumbnail size that is None in settings.USER_THUMBNAILS
NoneDim == 0
\* The widths and heights of the source images.
Dims == (1..MaxDim) \cup {400, 800}
\* The fixed dimensions of the thumbnail sizes.
Targets == (1..MaxTarget) \cup {100}
\* The schemes of the URLs as written.
RawSchemes == {"http", "HTTPS", "ftp", ""}
\* The status codes a response can carry.
Statuses == {101, 200, 304, 404, 500}
\* What advocate.get can raise: no connection or no address for the name, a
\* timeout, an address the SSRF guard refuses.
GetFaults ==
    {"requests.ConnectionError", "requests.ConnectTimeout",
     "UnacceptableAddressException"}
\* What response.iter_content can raise while the body is read.
BodyFaults ==
    {"requests.ChunkedEncodingError", "requests.ConnectionError",
     "ConnectionResetError"}
\* The Content-Length header: absent, not a number, or a number.
ContentLengths ==
    {[kind |-> "absent", value |-> 0], [kind |-> "text", value |-> 0]}
        \cup {[kind |-> "int", value |-> n] : n \in 0..(SizeLimit + 1)}
\* settings.USER_THUMBNAILS, in iteration order.
ThumbNames == <<"tiny", "small">>

(***************************************************************************)
(* Pure helpers.                                                           *)
(***************************************************************************)
THUMBNAIL_MIME_TYPES ==
    { "application/pdf",
      "application/vnd.ms-powerpoint",
      "application/vnd.openxmlformats-officedocument.presentationml.presentation",
      "application/vnd.oasis.opendocument.presentation",
      "application/msword",
      "application/vnd.openxmlformats-officedocument.wordprocessingml.document",
      "application/vnd.oasis.opendocument.text",
      "application/vnd.ms-excel",
      "application/vnd.openxmlformats-officedocument.spreadsheetml.sheet",
      "application/vnd.oasis.opendocument.spreadsheet" }

DOCUMENT_CONVERSION_MAP ==
    { "application/vnd.ms-powerpoint",
      "application/vnd.openxmlformats-officedocument.presentationml.presentation",
      "application/vnd.oasis.opendocument.presentation",
      "application/msword",
      "application/vnd.openxmlformats-officedocument.wordprocessingml.document",
      "application/vnd.oasis.opendocument.text",
      "application/vnd.ms-excel",
      "application/vnd.openxmlformats-officedocument.spreadsheetml.sheet",
      "application/vnd.oasis.opendocument.spreadsheet" }

\* pathlib.Path(file_name).suffix[1:].lower()
Extension(fileName) ==
    CASE fileName = "photo.png" -> "png"
      [] fileName = "SCAN.PDF" -> "pdf"
      [] fileName = "slides.pptx" -> "pptx"
      [] OTHER -> ""

\* mimetypes.guess_type(name)[0], which goes by the extension in any case
MimeOfExtension(ext) ==
    CASE ext = "png" -> "image/png"
      [] ext = "jpg" -> "image/jpeg"
      [] ext = "pdf" -> "application/pdf"
      [] ext = "pptx" ->
           "application/vnd.openxmlformats-officedocument.presentationml.presentation"
      [] OTHER -> "None"

GuessMimeType(fileName) == MimeOfExtension(Extension(fileName))

\* urlparse(url).scheme: the scheme in lower case
UrlParseScheme(raw) ==
    CASE raw = "HTTPS" -> "https"
      [] raw = "HTTP" -> "http"
      [] raw = "FTP" -> "ftp"
      [] OTHER -> raw

\* Variant: any scheme at all is let through.
SchemeAllowedAnyNonEmpty(scheme) == scheme # ""
\* parsed_url.scheme in ["http", "https"]
SchemeAllowed(scheme) == scheme \in {"http", "https"}

\* The subclasses of requests.exceptions.RequestException among the faults
RequestExceptions ==
    {"requests.ConnectionError", "requests.ConnectTimeout",
     "requests.ChunkedEncodingError"}

\* Variant: only the exceptions of requests are caught.
IsCaughtRequestsOnly(e) == e \in RequestExceptions
\* except (RequestException, UnacceptableAddressException, ConnectionError)
IsCaught(e) ==
    \/ e \in RequestExceptions
    \/ e = "UnacceptableAddressException"
    \/ e = "ConnectionResetError"

\* Variant: only 5xx counts as a failure.
ResponseOkOnlyServerErrors(status) == status < 500
\* response.ok: the status is below 400
ResponseOk(status) == status < 400

\* Variant: the ceiling itself is rejected.
SizeTooLargeInclusive(size) == size >= SizeLimit
\* size > settings.BASEROW_FILE_UPLOAD_SIZE_LIMIT_MB
SizeTooLarge(size) == size > SizeLimit

\* Variant: the header is not looked at.
HeaderTooLargeNever(cl) == FALSE
\* int(response.headers.get("Content-Length", "")) > limit; a ValueError passes
HeaderTooLarge(cl) == cl.kind = "int" /\ cl.value > SizeLimit

\* Variant: one byte over the budget is let through.
BodyTooLargeOffByOne(received) == received > SizeLimit + 1
\* len(content) > settings.BASEROW_FILE_UPLOAD_SIZE_LIMIT_MB
BodyTooLarge(received) == received > SizeLimit

\* Variant: the loop never gives up.
TriesExhaustedNever(i) == FALSE
\* i > max_tries
TriesExhausted(i) == i > MaxTries

\* Variant: the extension is left out of the filter.
UniqueTakenIgnoringExtension(rows, hash, extension, unique) ==
    \E k \in 1..Len(rows) :
        rows[k].sha256_hash = hash /\ rows[k].unique = unique
\* UserFile.objects.filter(sha256_hash=, original_extension=, unique=).exists()
UniqueTaken(rows, hash, extension, unique) ==
    \E k \in 1..Len(rows) :
        /\ rows[k].sha256_hash = hash
        /\ rows[k].original_extension = extension
        /\ rows[k].unique = unique

\* Variant: a table without the constraint.
CreateAcceptsAlways(rows, row) == TRUE
\* The table's uniqueness constraint on (sha256_hash, original_extension,
\* unique): an insert of a duplicate is rejected.
CreateAccepts(rows, row) ==
    ~ \E k \in 1..Len(rows) :
        /\ rows[k].sha256_hash = row.sha256_hash
        /\ rows[k].original_extension = row.original_extension
        /\ rows[k].unique = row.unique

\* UserFile.name: the name built from the unique id and the extension
UserFileName(row) == [unique |-> row.unique, ext |-> row.original_extension]

\* user_file_path(user_file)
UserFilePath(row) == [dir |-> "files", thumb |-> "none", name |-> UserFileName(row)]

\* user_file_thumbnail_path(user_file, thumbnail_name)
UserFileThumbnailPath(row, thumbnailName) ==
    LET n == UserFileName(row)
    IN  [dir |-> "thumbnails", thumb |-> thumbnailName,
         name |-> IF MimeOfExtension(n.ext) \in THUMBNAIL_MIME_TYPES
                  THEN [n EXCEPT !.ext = "jpg"]
                  ELSE n]

\* The stored original of a row, written by `by`
OriginalBlob(row, by) ==
    [ path |-> UserFilePath(row), by |-> by, of |-> UserFileName(row),
      format |-> "raw", native |-> FALSE ]

\* The format of the decoded upload (image.format of Image.open)
SourceFormat == "PNG"

\* thumbnail.save(thumbnail_stream, image.format): the format of the source
\* image, which is the upload itself or the JPEG page of the conversion
ThumbnailFormat(isImage) == IF isImage THEN SourceFormat ELSE "JPEG"

\* The stored rendition thumbnailName of a row, written by `by`
ThumbnailBlob(row, thumbnailName, by) ==
    [ path |-> UserFileThumbnailPath(row, thumbnailName), by |-> by,
      of |-> UserFileName(row), format |-> ThumbnailFormat(row.is_image),
      native |-> row.is_image ]

\* storage.save(path, stream): the blob at the path is replaced
StorageSave(blobs, blob) ==
    {b \in blobs : b.path # blob.path} \cup {blob}

\* Variant: the filter is not looked at.
RenditionSelectedAlways(only_with_name, name) == TRUE
\* not (only_with_name and only_with_name != name)
RenditionSelected(only_with_name, name) ==
    only_with_name = "none" \/ only_with_name = name

\* Variant: the table of the convertible types is looked at first.
SourceImageFromTableFirst(isImage, mimeType) ==
    IF mimeType \in THUMBNAIL_MIME_TYPES THEN "document"
    ELSE IF isImage THEN "image"
    ELSE "unbound"
\* if user_file.is_image / elif mime_type == "application/pdf" /
\* elif mime_type in DOCUMENT_CONVERSION_MAP: where the source image of the
\* thumbnails comes from; in no branch, image_width is never bound
SourceImageFrom(isImage, mimeType) ==
    IF isImage THEN "image"
    ELSE IF mimeType = "application/pdf" THEN "pdf"
    ELSE IF mimeType \in DOCUMENT_CONVERSION_MAP THEN "document"
    ELSE "unbound"

\* Variant: the thumbnails are made for every file.
ThumbnailsApplyAlways(isImage, mimeType) == TRUE
\* user_file.is_image or mime_type in THUMBNAIL_MIME_TYPES
ThumbnailsApply(isImage, mimeType) ==
    isImage \/ mimeType \in THUMBNAIL_MIME_TYPES

\* Variant: the size is checked after the bytes were saved.
UploadOrderValidatesLast ==
    <<"hash", "generate_unique", "classify", "create", "seek", "thumbnails",
      "save", "size_check", "close">>
\* Variant: the row is created after the bytes were saved.
UploadOrderSavesFirst ==
    <<"size_check", "hash", "generate_unique", "classify", "seek", "thumbnails",
      "save", "create", "close">>
\* The statements of upload_user_file, in the order they run.
UploadOrder ==
    <<"size_check", "hash", "generate_unique", "classify", "create", "seek",
      "thumbnails", "save", "close">>

\* The program point after step s of upload_user_file
After(s) ==
    LET k == CHOOSE j \in 1..Len(UploadOrder) : UploadOrder[j] = s
    IN  IF k = Len(UploadOrder) THEN "done" ELSE UploadOrder[k + 1]

(***************************************************************************)
(* The locals of one call.                                                 *)
(***************************************************************************)
Idle ==
    [ pc |-> "idle", err |-> "none", at |-> "none", entry |-> "none",
      readable |-> TRUE, size |-> 0, fileName |-> "none",
      scheme |-> "none", requested |-> FALSE, status |-> 0,
      contentLength |-> [kind |-> "absent", value |-> 0],
      received |-> 0, responseClosed |-> FALSE, fault |-> "none",
      hash |-> "none", extension |-> "none", mime_type |-> "none",
      i |-> 0, unique |-> "none",
      is_image |-> FALSE, image_width |-> 0, image_height |-> 0,
      created |-> FALSE, thumbResult |-> "none", ti |-> 0,
      thumbRead |-> FALSE, converterArg |-> "none", converter |-> "idle",
      pos |-> 0, closed |-> FALSE, steps |-> <<>> ]

\* An exception leaves the call: the program point and the exception are kept
Raise(l, e) == [l EXCEPT !.pc = "raised", !.err = e, !.at = l.pc]

\* Step s of upload_user_file has run
Step(l, s) == [l EXCEPT !.pc = After(s), !.steps = Append(l.steps, s)]

\* The row upload_user_file creates
NewRow(p, l) ==
    [ sha256_hash |-> l.hash, original_extension |-> l.extension,
      unique |-> l.unique, uploaded_by |-> p, mime_type |-> l.mime_type,
      size |-> l.size, is_image |-> l.is_image,
      image_width |-> l.image_width, image_height |-> l.image_height ]

\* A row of an earlier upload
OldRow(u) ==
    [ sha256_hash |-> "h1", original_extension |-> "png", unique |-> u,
      uploaded_by |-> "old", mime_type |-> "image/png", size |-> 1,
      is_image |-> TRUE, image_width |-> 800, image_height |-> 400 ]

\* The row process p created, for the paths of its blobs
RowOf(p) == NewRow(p, proc[p])

\* The locals of the command before it runs
CmdIdle ==
    [ pc |-> "idle", err |-> "none", name |-> "none", i |-> 0, count |-> 0,
      user_files |-> <<>>, k |-> 0, user_file |-> OldRow("none"),
      open |-> FALSE, image |-> FALSE, pos |-> 0, ti |-> 0,
      result |-> "none", converterArg |-> "none",
      visited |-> <<>>, succeeded |-> 0, reported |-> 0,
      initial |-> <<>>, others |-> 0 ]

\* A thumbnail size not being resolved
NoDerive ==
    [ pc |-> "idle", image_width |-> 1, image_height |-> 1,
      size |-> <<NoneDim, NoneDim>>, size_copy |-> <<NoneDim, NoneDim>> ]

Init ==
    /\ proc = [p \in Procs |-> Idle]
    /\ userFiles \in {<<>>, <<OldRow("u1")>>, <<OldRow("u1"), OldRow("u2")>>}
    /\ storage = {}
    /\ cmd = CmdIdle
    /\ derive = NoDerive

(***************************************************************************)
(* upload_user_file_by_url                                                 *)
(***************************************************************************)
StartUploadByUrl(p) ==
    /\ proc[p].pc = "idle"
    /\ \E s \in RawSchemes, f \in FileNames :
         proc' = [proc EXCEPT ![p] =
                    [@ EXCEPT !.pc = "url_parse", !.entry = "url",
                              !.scheme = s, !.fileName = f]]
    /\ UNCHANGED <<userFiles, storage>>
    /\ UNCHANGED <<cmd, derive>>

UrlParse(p) ==
    /\ proc[p].pc = "url_parse"
    /\ proc' = [proc EXCEPT ![p] =
                  IF ~ SchemeAllowed(UrlParseScheme(@.scheme))
                  THEN Raise(@, "InvalidFileURLError")
                  ELSE [@ EXCEPT !.pc = "url_get"]]
    /\ UNCHANGED <<userFiles, storage>>
    /\ UNCHANGED <<cmd, derive>>

\* advocate.get raises: no connection, a timeout, an address it refuses
UrlGetFault(p) ==
    /\ proc[p].pc = "url_get"
    /\ \E e \in GetFaults :
         proc' = [proc EXCEPT ![p] =
                    Raise([@ EXCEPT !.requested = TRUE, !.fault = e],
                          IF IsCaught(e) THEN "FileURLCouldNotBeReached" ELSE e)]
    /\ UNCHANGED <<userFiles, storage>>
    /\ UNCHANGED <<cmd, derive>>

UrlGet(p) ==
    /\ proc[p].pc = "url_get"
    /\ \E s \in Statuses :
         proc' = [proc EXCEPT ![p] =
                    LET l == [@ EXCEPT !.requested = TRUE, !.status = s]
                    IN  IF ~ ResponseOk(s)
                        THEN Raise(l, "FileURLCouldNotBeReached")
                        ELSE [l EXCEPT !.pc = "url_header"]]
    /\ UNCHANGED <<userFiles, storage>>
    /\ UNCHANGED <<cmd, derive>>

UrlHeader(p) ==
    /\ proc[p].pc = "url_header"
    /\ \E cl \in ContentLengths :
         proc' = [proc EXCEPT ![p] =
                    LET l == [@ EXCEPT !.contentLength = cl]
                    IN  IF HeaderTooLarge(cl)
                        THEN Raise(l, "FileSizeTooLargeError")
                        ELSE [l EXCEPT !.pc = "url_body"]]
    /\ UNCHANGED <<userFiles, storage>>
    /\ UNCHANGED <<cmd, derive>>

UrlChunk(p) ==
    /\ proc[p].pc = "url_body"
    /\ \E n \in 1..MaxChunk :
         proc' = [proc EXCEPT ![p] =
                    LET l == [@ EXCEPT !.received = @ + n]
                    IN  IF BodyTooLarge(l.received)
                        THEN Raise([l EXCEPT !.responseClosed = TRUE],
                                   "FileSizeTooLargeError")
                        ELSE l]
    /\ UNCHANGED <<userFiles, storage>>
    /\ UNCHANGED <<cmd, derive>>

\* response.iter_content raises a RequestException
UrlBodyFault(p) ==
    /\ proc[p].pc = "url_body"
    /\ \E e \in BodyFaults :
         proc' = [proc EXCEPT ![p] =
                    Raise([@ EXCEPT !.fault = e],
                          IF IsCaught(e) THEN "FileURLCouldNotBeReached" ELSE e)]
    /\ UNCHANGED <<userFiles, storage>>
    /\ UNCHANGED <<cmd, derive>>

\* The body has ended: upload_user_file is called with the file name and the
\* content, and with nothing else of the fetch
UrlBodyEnd(p) ==
    /\ proc[p].pc = "url_body"
    /\ proc' = [proc EXCEPT ![p] =
                  [Idle EXCEPT !.pc = UploadOrder[1], !.entry = "url",
                               !.requested = TRUE, !.readable = TRUE,
                               !.fileName = proc[p].fileName,
                               !.size = proc[p].received]]
    /\ UNCHANGED <<userFiles, storage>>
    /\ UNCHANGED <<cmd, derive>>

(***************************************************************************)
(* upload_user_file                                                        *)
(***************************************************************************)
StartUpload(p) ==
    /\ proc[p].pc = "idle"
    /\ \E r \in BOOLEAN, n \in Sizes, f \in FileNames :
         proc' = [proc EXCEPT ![p] =
                    [@ EXCEPT !.pc = UploadOrder[1], !.entry = "stream",
                              !.readable = r, !.size = n, !.fileName = f]]
    /\ UNCHANGED <<userFiles, storage>>
    /\ UNCHANGED <<cmd, derive>>

SizeCheck(p) ==
    /\ proc[p].pc = "size_check"
    /\ proc' = [proc EXCEPT ![p] =
                  IF ~ @.readable
                  THEN Raise(@, "InvalidFileStreamError")
                  ELSE IF SizeTooLarge(@.size)
                  THEN Raise([@ EXCEPT !.steps = Append(@, "size_check")],
                             "FileSizeTooLargeError")
                  ELSE Step(@, "size_check")]
    /\ UNCHANGED <<userFiles, storage>>
    /\ UNCHANGED <<cmd, derive>>

HashStream(p) ==
    /\ proc[p].pc = "hash"
    /\ \E h \in Hashes :
         proc' = [proc EXCEPT ![p] =
                    Step([@ EXCEPT !.hash = h,
                                   !.extension = Extension(proc[p].fileName),
                                   !.mime_type = GuessMimeType(proc[p].fileName)],
                         "hash")]
    /\ UNCHANGED <<userFiles, storage>>
    /\ UNCHANGED <<cmd, derive>>

GenerateUniqueRaise(p) ==
    /\ proc[p].pc = "generate_unique"
    /\ TriesExhausted(proc[p].i)
    /\ proc' = [proc EXCEPT ![p] = Raise(@, "MaximumUniqueTriesError")]
    /\ UNCHANGED <<userFiles, storage>>
    /\ UNCHANGED <<cmd, derive>>

GenerateUniqueTry(p) ==
    /\ proc[p].pc = "generate_unique"
    /\ ~ TriesExhausted(proc[p].i)
    /\ \E u \in Uniques :
         proc' = [proc EXCEPT ![p] =
                    LET l == [@ EXCEPT !.i = @ + 1, !.unique = u]
                    IN  IF ~ UniqueTaken(userFiles, l.hash, l.extension, u)
                        THEN Step(l, "generate_unique")
                        ELSE l]
    /\ UNCHANGED <<userFiles, storage>>
    /\ UNCHANGED <<cmd, derive>>

\* Variant: is_image is set before Image.open is tried.
ClassifiedFlagFirst(l, decodes) ==
    IF decodes
    THEN [l EXCEPT !.is_image = TRUE, !.image_width = 800, !.image_height = 400]
    ELSE [l EXCEPT !.is_image = TRUE]
\* is_image = False, image_width = image_height = None, and then
\* try: Image.open(stream), is_image = True, the width and height of the
\* image; except IOError: pass
Classified(l, decodes) ==
    IF decodes
    THEN [l EXCEPT !.is_image = TRUE, !.image_width = 800, !.image_height = 400]
    ELSE [l EXCEPT !.is_image = FALSE, !.image_width = NoneDim,
                   !.image_height = NoneDim]

Classify(p) ==
    /\ proc[p].pc = "classify"
    /\ \E decodes \in BOOLEAN :
         proc' = [proc EXCEPT ![p] =
                    Step([Classified(proc[p], decodes) EXCEPT !.pos = 1, !.i = 0],
                         "classify")]
    /\ UNCHANGED <<userFiles, storage>>
    /\ UNCHANGED <<cmd, derive>>

Create(p) ==
    /\ proc[p].pc = "create"
    /\ IF CreateAccepts(userFiles, NewRow(p, proc[p]))
       THEN /\ userFiles' = Append(userFiles, NewRow(p, proc[p]))
            /\ proc' = [proc EXCEPT ![p] = Step([@ EXCEPT !.created = TRUE], "create")]
       ELSE /\ userFiles' = userFiles
            /\ proc' = [proc EXCEPT ![p] = Raise(@, "IntegrityError")]
    /\ UNCHANGED storage
    /\ UNCHANGED <<cmd, derive>>

Seek(p) ==
    /\ proc[p].pc = "seek"
    /\ proc' = [proc EXCEPT ![p] = Step([@ EXCEPT !.pos = 0], "seek")]
    /\ UNCHANGED <<userFiles, storage>>
    /\ UNCHANGED <<cmd, derive>>

\* generate_and_save_file_thumbnails up to its loop: the source image is the
\* decoded upload, the first page of the PDF or the converted document. A
\* PDF conversion that raises is caught and False is returned, with the
\* stream left where the read ended.
Thumbnails(p) ==
    /\ proc[p].pc = "thumbnails"
    /\ LET l == proc[p]
           loop == [l EXCEPT !.pc = "thumbnail_loop", !.ti = 1]
           false == [l EXCEPT !.thumbResult = "False"]
       IN  IF ~ ThumbnailsApply(l.is_image, l.mime_type)
           THEN proc' = [proc EXCEPT ![p] = Step(false, "thumbnails")]
           ELSE IF SourceImageFrom(l.is_image, l.mime_type) = "image"
           THEN proc' = [proc EXCEPT ![p] = loop]
           ELSE IF SourceImageFrom(l.is_image, l.mime_type) = "pdf"
           THEN \E converts \in BOOLEAN :
                  proc' = [proc EXCEPT ![p] =
                             IF converts
                             THEN [loop EXCEPT !.pos = 0, !.thumbRead = TRUE]
                             ELSE Step([false EXCEPT !.pos = 1, !.thumbRead = TRUE],
                                       "thumbnails")]
           ELSE IF SourceImageFrom(l.is_image, l.mime_type) = "document"
           THEN proc' = [proc EXCEPT ![p] =
                           [l EXCEPT !.pc = "convert_document", !.pos = 0,
                                     !.thumbRead = TRUE,
                                     !.converterArg = l.mime_type,
                                     !.converter = "running"]]
           ELSE proc' = [proc EXCEPT ![p] = Raise(l, "UnboundLocalError")]
    /\ UNCHANGED <<userFiles, storage>>
    /\ UNCHANGED <<cmd, derive>>

\* convert_document_to_image: check_output returns, and the conversion has
\* worked or has raised, which is caught and False is returned
ConvertDocument(p) ==
    /\ proc[p].pc = "convert_document"
    /\ proc[p].converter = "running"
    /\ \E converts \in BOOLEAN :
         proc' = [proc EXCEPT ![p] =
                    IF converts
                    THEN [@ EXCEPT !.pc = "thumbnail_loop", !.ti = 1,
                                   !.converter = "idle"]
                    ELSE Step([@ EXCEPT !.thumbResult = "False",
                                        !.converter = "idle"], "thumbnails")]
    /\ UNCHANGED <<userFiles, storage>>
    /\ UNCHANGED <<cmd, derive>>

\* The soffice process never ends: check_output is called without a timeout
ConverterHangs(p) ==
    /\ proc[p].pc = "convert_document"
    /\ proc[p].converter = "running"
    /\ proc' = [proc EXCEPT ![p] = [@ EXCEPT !.converter = "hung"]]
    /\ UNCHANGED <<userFiles, storage>>
    /\ UNCHANGED <<cmd, derive>>

\* One round of the loop over settings.USER_THUMBNAILS, or its end
ThumbnailLoop(p) ==
    /\ proc[p].pc = "thumbnail_loop"
    /\ IF proc[p].ti > Len(ThumbNames)
       THEN /\ proc' = [proc EXCEPT ![p] =
                          Step([@ EXCEPT !.thumbResult = "True", !.ti = 0],
                               "thumbnails")]
            /\ UNCHANGED storage
       ELSE /\ storage' = IF RenditionSelected("none", ThumbNames[proc[p].ti])
                            THEN StorageSave(storage,
                                     ThumbnailBlob(RowOf(p), ThumbNames[proc[p].ti], p))
                            ELSE storage
            /\ proc' = [proc EXCEPT ![p] = [@ EXCEPT !.ti = @ + 1]]
    /\ UNCHANGED userFiles
    /\ UNCHANGED <<cmd, derive>>

\* ImageOps.fit, thumbnail.save or storage.save raises inside the loop
ThumbnailLoopFault(p) ==
    /\ proc[p].pc = "thumbnail_loop"
    /\ proc[p].ti <= Len(ThumbNames)
    /\ proc' = [proc EXCEPT ![p] = Raise(@, "Exception")]
    /\ UNCHANGED <<userFiles, storage>>
    /\ UNCHANGED <<cmd, derive>>

Save(p) ==
    /\ proc[p].pc = "save"
    /\ storage' = StorageSave(storage, OriginalBlob(RowOf(p), p))
    /\ proc' = [proc EXCEPT ![p] = Step([@ EXCEPT !.pos = 1], "save")]
    /\ UNCHANGED userFiles
    /\ UNCHANGED <<cmd, derive>>

Close(p) ==
    /\ proc[p].pc = "close"
    /\ proc' = [proc EXCEPT ![p] = Step([@ EXCEPT !.closed = TRUE], "close")]
    /\ UNCHANGED <<userFiles, storage>>
    /\ UNCHANGED <<cmd, derive>>

\* A call that has begun and has neither returned nor raised
InFlight(p) == proc[p].pc \notin {"idle", "done", "raised", "crashed"}

\* The worker dies between two steps of a call, and its locals with it
Crash(p) ==
    /\ InFlight(p)
    /\ proc' = [proc EXCEPT ![p] = [Idle EXCEPT !.pc = "crashed"]]
    /\ UNCHANGED <<userFiles, storage>>
    /\ UNCHANGED <<cmd, derive>>

\* The steps of one upload_user_file call
UploadNext(p) ==
    \/ StartUpload(p)
    \/ SizeCheck(p)
    \/ HashStream(p)
    \/ GenerateUniqueRaise(p)
    \/ GenerateUniqueTry(p)
    \/ Classify(p)
    \/ Create(p)
    \/ Seek(p)
    \/ Thumbnails(p)
    \/ ConvertDocument(p)
    \/ ConverterHangs(p)
    \/ ThumbnailLoop(p)
    \/ ThumbnailLoopFault(p)
    \/ Save(p)
    \/ Close(p)
    \/ Crash(p)

\* The steps of one upload_user_file_by_url call, up to its upload_user_file
UrlNext(p) ==
    \/ StartUploadByUrl(p)
    \/ UrlParse(p)
    \/ UrlGetFault(p)
    \/ UrlGet(p)
    \/ UrlHeader(p)
    \/ UrlChunk(p)
    \/ UrlBodyFault(p)
    \/ UrlBodyEnd(p)

\* Concurrent requests, each one upload_user_file call
Next == \E p \in Procs : UploadNext(p)

Spec == Init /\ [][Next]_vars

\* One request on its own, an upload_user_file_by_url or an upload_user_file
NextByUrl == \E p \in UrlProcs : UrlNext(p) \/ UploadNext(p)

SpecByUrl == Init /\ [][NextByUrl]_vars

(***************************************************************************)
(* The regenerate_user_file_thumbnails command: Command.handle.            *)
(***************************************************************************)
\* The unique ids of the rows of the table the command is run on
RecordUniques == <<"r1", "r2", "r3", "r4", "r5", "r6", "r7">>

\* The kinds of rows: an image, a PDF, a presentation, and a file that is
\* named as an image and could not be decoded
RecordKinds == {"image", "pdf", "pptx", "other"}

\* The row of an earlier upload of the given kind
BatchRow(u, kind) ==
    CASE kind = "image" -> OldRow(u)
      [] kind = "pdf" ->
           [OldRow(u) EXCEPT !.original_extension = "pdf",
                             !.mime_type = "application/pdf",
                             !.is_image = FALSE,
                             !.image_width = 0, !.image_height = 0]
      [] kind = "pptx" ->
           [OldRow(u) EXCEPT !.original_extension = "pptx",
                             !.mime_type = MimeOfExtension("pptx"),
                             !.is_image = FALSE,
                             !.image_width = 0, !.image_height = 0]
      [] OTHER ->
           [OldRow(u) EXCEPT !.is_image = FALSE,
                             !.image_width = 0, !.image_height = 0]

ThumbNameSet == {ThumbNames[j] : j \in 1..Len(ThumbNames)}

\* What the earlier uploads left in the storage: the originals, but for the
\* rows whose blob is missing, and the thumbnails of that time
StoredBefore(rows, missing) ==
    {OriginalBlob(rows[j], "old") : j \in (1..Len(rows)) \ missing}
    \cup {ThumbnailBlob(rows[j], name, "old") :
            j \in {k \in 1..Len(rows) :
                     ThumbnailsApply(rows[k].is_image,
                                     MimeOfExtension(rows[k].original_extension))},
            name \in ThumbNameSet}

InitBatch ==
    /\ proc = [p \in Procs |-> Idle]
    /\ cmd = CmdIdle
    /\ derive = NoDerive
    /\ \E n \in 0..MaxRecords :
         \E kinds \in [1..n -> RecordKinds], missing \in SUBSET (1..n) :
            /\ userFiles = [j \in 1..n |-> BatchRow(RecordUniques[j], kinds[j])]
            /\ storage = StoredBefore(userFiles, missing)

\* queryset[lo:hi], evaluated when the for loop starts: OFFSET lo, LIMIT hi - lo
QuerySlice(rows, lo, hi) ==
    SubSeq(rows, lo + 1, IF hi < Len(rows) THEN hi ELSE Len(rows))

\* default_storage.open(full_path) finds the file
StorageHas(blobs, path) == \E b \in blobs : b.path = path

\* handle up to the while loop: options["name"], i = 0, count
BatchStart ==
    /\ cmd.pc = "idle"
    /\ \E name \in {"none"} \cup ThumbNameSet :
         cmd' = [cmd EXCEPT !.pc = "while", !.name = name, !.i = 0,
                            !.count = Len(userFiles),
                            !.initial = [j \in 1..Len(userFiles) |->
                                           userFiles[j].unique]]
    /\ UNCHANGED <<proc, userFiles, storage, derive>>

\* while i < count: the next page is taken, or the count is written out
BatchWhile ==
    /\ cmd.pc = "while"
    /\ cmd' = IF cmd.i < cmd.count
              THEN [cmd EXCEPT !.pc = "for", !.k = 1,
                               !.user_files =
                                   QuerySlice(userFiles, cmd.i,
                                              IF cmd.count < cmd.i + BufferSize
                                              THEN cmd.count
                                              ELSE cmd.i + BufferSize)]
              ELSE [cmd EXCEPT !.pc = "done", !.reported = cmd.i]
    /\ UNCHANGED <<proc, userFiles, storage, derive>>

\* for user_file in user_files: i += 1 and the stored file is opened; a
\* missing file is skipped
BatchFor ==
    /\ cmd.pc = "for"
    /\ cmd' = IF cmd.k > Len(cmd.user_files)
              THEN [cmd EXCEPT !.pc = "while"]
              ELSE LET row == cmd.user_files[cmd.k]
                       next == [cmd EXCEPT !.i = cmd.i + 1, !.k = cmd.k + 1,
                                           !.user_file = row,
                                           !.result = "none", !.image = FALSE,
                                           !.converterArg = "none",
                                           !.visited = Append(cmd.visited, row.unique)]
                   IN  IF StorageHas(storage, UserFilePath(row))
                       THEN [next EXCEPT !.pc = "image_open", !.open = TRUE,
                                         !.pos = 0]
                       ELSE next
    /\ UNCHANGED <<proc, userFiles, storage, derive>>

\* Image.open(stream): the stored bytes are those the upload classified; the
\* stream is left behind the header that was read
BatchImageOpen ==
    /\ cmd.pc = "image_open"
    /\ cmd' = [cmd EXCEPT !.pc = "generate", !.image = cmd.user_file.is_image,
                          !.pos = 1]
    /\ UNCHANGED <<proc, userFiles, storage, derive>>

\* generate_and_save_file_thumbnails up to its loop, called by the command
BatchGenerate ==
    /\ cmd.pc = "generate"
    /\ LET row == cmd.user_file
           mime_type == MimeOfExtension(row.original_extension)
           loop == [cmd EXCEPT !.pc = "loop", !.ti = 1]
           false == [cmd EXCEPT !.pc = "close", !.result = "False"]
       IN  IF ~ ThumbnailsApply(row.is_image, mime_type)
           THEN cmd' = false
           ELSE IF SourceImageFrom(row.is_image, mime_type) = "image"
           THEN cmd' = loop
           ELSE IF SourceImageFrom(row.is_image, mime_type) = "pdf"
           THEN \E converts \in BOOLEAN :
                  cmd' = IF converts THEN [loop EXCEPT !.pos = 0]
                         ELSE [false EXCEPT !.pos = 1]
           ELSE IF SourceImageFrom(row.is_image, mime_type) = "document"
           THEN \E converts \in BOOLEAN :
                  cmd' = IF converts
                         THEN [loop EXCEPT !.pos = 0, !.converterArg = mime_type]
                         ELSE [false EXCEPT !.pos = 0, !.converterArg = mime_type]
           ELSE cmd' = [cmd EXCEPT !.pc = "raised", !.err = "UnboundLocalError"]
    /\ UNCHANGED <<proc, userFiles, storage, derive>>

\* One round of the loop over settings.USER_THUMBNAILS, or its end
BatchLoop ==
    /\ cmd.pc = "loop"
    /\ IF cmd.ti > Len(ThumbNames)
       THEN /\ cmd' = [cmd EXCEPT !.pc = "close", !.result = "True", !.ti = 0,
                                  !.succeeded = cmd.succeeded + 1]
            /\ UNCHANGED storage
       ELSE /\ storage' = IF RenditionSelected(cmd.name, ThumbNames[cmd.ti])
                          THEN StorageSave(storage,
                                   ThumbnailBlob(cmd.user_file, ThumbNames[cmd.ti],
                                                 "command"))
                          ELSE storage
            /\ cmd' = [cmd EXCEPT !.ti = cmd.ti + 1]
    /\ UNCHANGED <<proc, userFiles, derive>>

\* ImageOps.fit, thumbnail.save or storage.save raises inside the loop:
\* nothing in handle catches it
BatchLoopFault ==
    /\ cmd.pc = "loop"
    /\ cmd.ti <= Len(ThumbNames)
    /\ RenditionSelected(cmd.name, ThumbNames[cmd.ti])
    /\ cmd' = [cmd EXCEPT !.pc = "raised", !.err = "Exception"]
    /\ UNCHANGED <<proc, userFiles, storage, derive>>

\* stream.close() and image.close()
BatchClose ==
    /\ cmd.pc = "close"
    /\ cmd' = [cmd EXCEPT !.pc = "for", !.open = FALSE, !.image = FALSE]
    /\ UNCHANGED <<proc, userFiles, storage, derive>>

NextBatch ==
    \/ BatchStart
    \/ BatchWhile
    \/ BatchFor
    \/ BatchImageOpen
    \/ BatchGenerate
    \/ BatchLoop
    \/ BatchLoopFault
    \/ BatchClose

\* The command run on a table that no request changes meanwhile.
SpecBatch == InitBatch /\ [][NextBatch]_vars

\* The command is between its start and its end
CmdRunning == cmd.pc \notin {"idle", "done", "raised"}

\* rows without its j-th row
RemoveAt(rows, j) == SubSeq(rows, 1, j - 1) \o SubSeq(rows, j + 1, Len(rows))

\* Another request's upload_user_file creates its row while the command
\* runs: the row gets the next id, and its file is not saved yet
OtherCreate ==
    /\ CmdRunning
    /\ cmd.others < MaxCreates
    /\ userFiles' = Append(userFiles,
                           BatchRow(RecordUniques[Len(cmd.initial) + cmd.others + 1],
                                    "image"))
    /\ cmd' = [cmd EXCEPT !.others = cmd.others + 1]
    /\ UNCHANGED <<proc, storage, derive>>

\* Another request deletes a row of the table while the command runs
OtherDelete ==
    /\ CmdRunning
    /\ \E j \in 1..Len(userFiles) : userFiles' = RemoveAt(userFiles, j)
    /\ UNCHANGED <<proc, storage, cmd, derive>>

NextBatchRace ==
    \/ NextBatch
    \/ OtherCreate
    \/ OtherDelete

\* The tables of InitBatch whose rows are images with their file stored: the
\* pages the command takes do not depend on the kinds of the rows
InitBatchRace ==
    /\ InitBatch
    /\ \A j \in 1..Len(userFiles) :
         userFiles[j].is_image /\ StorageHas(storage, UserFilePath(userFiles[j]))

\* One upload_user_file call and the command, in any interleaving
NextUploadAndBatch ==
    \/ \E p \in UrlProcs : UploadNext(p)
    \/ NextBatch

\* One upload and a run of the command on the same table and storage.
SpecUploadAndBatch == Init /\ [][NextUploadAndBatch]_vars

\* The command run while other requests create and delete rows.
SpecBatchRace == InitBatchRace /\ [][NextBatchRace]_vars

(***************************************************************************)
(* The resolution of a thumbnail size with a dimension left to the aspect  *)
(* ratio, in the loop of generate_and_save_file_thumbnails.                *)
(***************************************************************************)
\* Python's round(n / d) for n >= 0 and d > 0: to the nearest integer, a
\* tie to the even one
PyRound(n, d) ==
    LET q == n \div d
        r == n % d
    IN  IF 2 * r < d THEN q
        ELSE IF 2 * r > d THEN q + 1
        ELSE IF q % 2 = 0 THEN q ELSE q + 1

\* settings.USER_THUMBNAILS values: both dimensions fixed, or one of them None
ThumbSizes ==
    {<<w, h>> : w \in Targets \cup {NoneDim}, h \in Targets \cup {NoneDim}}
        \ {<<NoneDim, NoneDim>>}

InitResize ==
    /\ proc = [p \in Procs |-> Idle]
    /\ userFiles = <<>>
    /\ storage = {}
    /\ cmd = CmdIdle
    /\ \E w \in Dims, h \in Dims, size \in ThumbSizes :
         derive = [pc |-> "size", image_width |-> w, image_height |-> h,
                   size |-> size, size_copy |-> size]

\* size_copy[0] = round(image_width / image_height * size_copy[1]), or
\* size_copy[1] = round(image_height / image_width * size_copy[0])
ResolveSize ==
    /\ derive.pc = "size"
    /\ LET size == derive.size
       IN  derive' =
             [derive EXCEPT
                !.pc = "fit",
                !.size_copy =
                    IF size[1] = NoneDim /\ size[2] # NoneDim
                    THEN <<PyRound(derive.image_width * size[2], derive.image_height),
                           size[2]>>
                    ELSE IF size[2] = NoneDim /\ size[1] # NoneDim
                    THEN <<size[1],
                           PyRound(derive.image_height * size[1], derive.image_width)>>
                    ELSE size]
    /\ UNCHANGED <<proc, userFiles, storage, cmd>>

\* One size resolved for one source image.
SpecResize == InitResize /\ [][ResolveSize]_vars

(***************************************************************************)
(* The claims.                                                             *)
(***************************************************************************)
\* Step s of upload_user_file has run in p's call
Ran(p, s) == \E k \in 1..Len(proc[p].steps) : proc[p].steps[k] = s

\* p's call ended with exception e, raised at program point a
RaisedAt(p, e, a) ==
    proc[p].pc = "raised" /\ proc[p].err = e /\ proc[p].at = a

\* C1: no two rows of the UserFile table share the same
\* (sha256_hash, original_extension, unique), whatever the interleaving of the
\* existence checks and the creates of concurrent upload_user_file calls.
C1_UniqueTogether ==
    \A j, k \in 1..Len(userFiles) :
        j # k =>
            ~ ( /\ userFiles[j].sha256_hash = userFiles[k].sha256_hash
                /\ userFiles[j].original_extension = userFiles[k].original_extension
                /\ userFiles[j].unique = userFiles[k].unique )

\* Two calls passed the existence check with the same candidate; one created
\* its row and the other's create was rejected.
C1_Witness ==
    \E p, q \in Procs :
        /\ p # q
        /\ proc[p].created
        /\ RaisedAt(q, "IntegrityError", "create")
        /\ proc[p].hash = proc[q].hash
        /\ proc[p].extension = proc[q].extension
        /\ proc[p].unique = proc[q].unique

\* C2: generate_unique raises MaximumUniqueTriesError after exactly max_tries
\* existence checks, and never runs a (max_tries + 1)-th check.
C2_ExactlyMaxTries ==
    \A p \in Procs :
        /\ proc[p].i <= MaxTries
        /\ proc[p].err = "MaximumUniqueTriesError" => proc[p].i = MaxTries

\* C3: in every round of generate_unique the candidate is returned if and only
\* if no row holds (hash, extension, candidate) at the time of the check, and
\* the exhausted-retries error is not raised before max_tries checks have
\* failed: the first free candidate among the first max_tries is the result.
C3_FirstFree ==
    [][ \A p \in Procs :
          ( /\ proc[p].pc = "generate_unique"
            /\ proc'[p] # proc[p]
            /\ proc'[p].pc # "crashed" ) =>
              LET l == proc[p]
                  m == proc'[p]
                  free == ~ \E k \in 1..Len(userFiles) :
                                /\ userFiles[k].sha256_hash = l.hash
                                /\ userFiles[k].original_extension = l.extension
                                /\ userFiles[k].unique = m.unique
              IN  IF m.i = l.i + 1
                  THEN /\ free => m.pc \notin {"generate_unique", "raised"}
                       /\ ~ free => m.pc = "generate_unique"
                  ELSE /\ m.pc = "raised"
                       /\ m.err = "MaximumUniqueTriesError"
                       /\ l.i >= MaxTries ]_vars

\* generate_unique has returned its i-th candidate after i - 1 collisions,
\* with at least one collision and fewer than max_tries.
C3_Witness ==
    \E p \in Procs :
        /\ proc[p].pc = "classify"
        /\ proc[p].i >= 2
        /\ proc[p].i - 1 < MaxTries
        /\ \E k \in 1..Len(userFiles) :
             /\ userFiles[k].sha256_hash = proc[p].hash
             /\ userFiles[k].original_extension = proc[p].extension
             /\ userFiles[k].unique # proc[p].unique

\* C4: once the size check of upload_user_file has run on a stream, the call
\* has failed with FileSizeTooLargeError there if and only if the byte count
\* is above the ceiling; a stream of exactly the ceiling goes on.
C4_SizeCeiling ==
    \A p \in Procs :
        Ran(p, "size_check") =>
            ( proc[p].size >= SizeLimit + 1
                <=> RaisedAt(p, "FileSizeTooLargeError", "size_check") )

\* A stream of exactly the ceiling was uploaded to the end and a stream of one
\* byte more was rejected.
C4_Witness ==
    \E p, q \in Procs :
        /\ proc[p].size = SizeLimit
        /\ proc[p].pc = "done"
        /\ proc[q].size = SizeLimit + 1
        /\ RaisedAt(q, "FileSizeTooLargeError", "size_check")

StructuralErrors ==
    { "InvalidFileStreamError", "FileSizeTooLargeError", "InvalidFileURLError",
      "FileURLCouldNotBeReached", "MaximumUniqueTriesError" }

\* C5: a call that ended with a structural or input error has created no row
\* and has written no original and no thumbnail.
C5_AbortLeavesNoTrace ==
    \A p \in Procs :
        (proc[p].pc = "raised" /\ proc[p].err \in StructuralErrors) =>
            /\ ~ proc[p].created
            /\ \A k \in 1..Len(userFiles) : userFiles[k].uploaded_by # p
            /\ \A b \in storage : b.by # p

\* A call by URL fetched its content and then ran out of unique candidates.
C5_Witness ==
    \E p \in Procs :
        /\ proc[p].entry = "url"
        /\ RaisedAt(p, "MaximumUniqueTriesError", "generate_unique")
        /\ Ran(p, "hash")

\* C6: no failure inside generate_and_save_file_thumbnails leaves it as an
\* exception: upload_user_file never ends with an exception raised there.
C6_ThumbnailFailuresCaught ==
    \A p \in Procs :
        ~ ( /\ proc[p].pc = "raised"
            /\ proc[p].at \in {"thumbnails", "thumbnail_loop"} )

\* C7: the steps of upload_user_file run in the order size check, hashing,
\* unique id, classification, row created, stream reset, thumbnails, raw bytes
\* saved, stream closed; and every stored original or thumbnail is that of a
\* row of the table.
C7_RecordBeforeBlobs ==
    /\ \A p \in Procs :
         LET order == <<"size_check", "hash", "generate_unique", "classify",
                        "create", "seek", "thumbnails", "save", "close">>
         IN  /\ Len(proc[p].steps) <= Len(order)
             /\ proc[p].steps = SubSeq(order, 1, Len(proc[p].steps))
             /\ proc[p].pc = "done" => proc[p].steps = order
    /\ \A b \in storage :
         \E k \in 1..Len(userFiles) :
            IF b.path.dir = "files"
            THEN b.path = UserFilePath(userFiles[k])
            ELSE b.path = UserFileThumbnailPath(userFiles[k], b.path.thumb)

\* An upload ran to its end and its original and a thumbnail are stored.
C7_Witness ==
    \E p \in Procs :
        /\ proc[p].pc = "done"
        /\ \E b \in storage : b.by = p /\ b.path.dir = "files"
        /\ \E b \in storage : b.by = p /\ b.path.dir = "thumbnails"

\* C8: in upload_user_file_by_url, once the bytes received exceed the budget
\* the call has closed the response and failed with FileSizeTooLargeError in
\* the body loop, whatever the Content-Length header said; a Content-Length
\* above the budget fails the call before any chunk is read; in both cases
\* upload_user_file is not called.
C8_BodyBudget ==
    \A p \in Procs :
        proc[p].entry = "url" =>
            /\ proc[p].received > SizeLimit =>
                 /\ RaisedAt(p, "FileSizeTooLargeError", "url_body")
                 /\ proc[p].responseClosed
                 /\ proc[p].steps = <<>>
            /\ (proc[p].contentLength.kind = "int"
                  /\ proc[p].contentLength.value > SizeLimit) =>
                 /\ RaisedAt(p, "FileSizeTooLargeError", "url_header")
                 /\ proc[p].received = 0
                 /\ proc[p].steps = <<>>

\* A body went over the budget although its Content-Length was within it.
C8_Witness ==
    \E p \in Procs :
        /\ proc[p].contentLength.kind = "int"
        /\ proc[p].contentLength.value <= SizeLimit
        /\ proc[p].received > SizeLimit
        /\ RaisedAt(p, "FileSizeTooLargeError", "url_body")

\* C9 as stated: every response whose status is not 2xx fails the call with
\* FileURLCouldNotBeReached, with no body read and no upload.
C9_Non2xxUnreachable ==
    \A p \in Procs :
        (proc[p].status # 0 /\ ~ (proc[p].status >= 200 /\ proc[p].status < 300)) =>
            /\ RaisedAt(p, "FileURLCouldNotBeReached", "url_get")
            /\ proc[p].received = 0
            /\ proc[p].steps = <<>>

\* C9, amended: every response whose status is 400 or above fails the call
\* with FileURLCouldNotBeReached, with no body read and no upload.
C9_ErrorStatusUnreachable ==
    \A p \in Procs :
        proc[p].status >= 400 =>
            /\ RaisedAt(p, "FileURLCouldNotBeReached", "url_get")
            /\ proc[p].received = 0
            /\ proc[p].steps = <<>>

\* A 404 response failed the call.
C9_Witness ==
    \E p \in Procs :
        /\ proc[p].status = 404
        /\ RaisedAt(p, "FileURLCouldNotBeReached", "url_get")

\* C10: a URL whose scheme is neither http nor https fails the call with
\* InvalidFileURLError, and no request has been issued for it.
C10_SchemeChecked ==
    \A p \in Procs :
        ( /\ proc[p].scheme \in RawSchemes
          /\ proc[p].pc # "url_parse"
          /\ UrlParseScheme(proc[p].scheme) \notin {"http", "https"} ) =>
            /\ RaisedAt(p, "InvalidFileURLError", "url_parse")
            /\ ~ proc[p].requested

\* An ftp URL was rejected.
C10_Witness ==
    \E p \in Procs :
        /\ proc[p].scheme = "ftp"
        /\ RaisedAt(p, "InvalidFileURLError", "url_parse")
        /\ ~ proc[p].requested

\* C11: every fault of the network during the fetch, at the request or while
\* the body is read, ends the call with FileURLCouldNotBeReached and without a
\* call of upload_user_file; an address the SSRF guard refuses ends it at the
\* request, before any byte of a body is read.
C11_FaultsUnreachable ==
    \A p \in Procs :
        proc[p].fault # "none" =>
            /\ proc[p].pc = "raised"
            /\ proc[p].err = "FileURLCouldNotBeReached"
            /\ proc[p].at \in {"url_get", "url_body"}
            /\ proc[p].steps = <<>>
            /\ ~ proc[p].created
            /\ proc[p].fault = "UnacceptableAddressException" =>
                 proc[p].at = "url_get" /\ proc[p].received = 0

\* The connection broke after a part of the body had been read.
C11_Witness ==
    \E p \in Procs :
        /\ proc[p].fault \in BodyFaults
        /\ proc[p].received > 0
        /\ RaisedAt(p, "FileURLCouldNotBeReached", "url_body")


\* C13: every call that was handed a readable stream and has ended, with its
\* result or with an exception, has closed that stream.
C13_StreamsClosedOnEveryExit ==
    \A p \in Procs :
        proc[p].pc \in {"done", "raised"} /\ proc[p].readable
            => proc[p].closed

\* The code of p's call has a step to take: any step of upload_user_file but
\* the death of the worker and the hanging of the converter
CallCanStep(p) ==
    \/ ENABLED SizeCheck(p)
    \/ ENABLED HashStream(p)
    \/ ENABLED GenerateUniqueRaise(p)
    \/ ENABLED GenerateUniqueTry(p)
    \/ ENABLED Classify(p)
    \/ ENABLED Create(p)
    \/ ENABLED Seek(p)
    \/ ENABLED Thumbnails(p)
    \/ ENABLED ConvertDocument(p)
    \/ ENABLED ThumbnailLoop(p)
    \/ ENABLED Save(p)
    \/ ENABLED Close(p)

\* C14: an upload always terminates: whatever the remote server or the
\* document converter do, a call in flight is never left without a step of
\* its own to take.
C14_CallNeverBlocked ==
    \A p \in Procs : InFlight(p) => CallCanStep(p)

C17_LoserRetries ==
    \A p \in Procs : ~ RaisedAt(p, "IntegrityError", "create")

\* C18: every stage that reads the whole stream starts at position 0, and
\* the position is back at 0 after the thumbnail stage, failed or not.
C18_StagesStartAtZero ==
    \A p \in Procs :
        proc[p].pc \in {"hash", "thumbnails", "save"} => proc[p].pos = 0

\* C19: a thumbnail is stored under a name rewritten to .jpg exactly when it
\* was made from a source that is no image, and then it is JPEG-encoded: the
\* extension of the stored name and the encoding agree.
C19_JpgIffConverted ==
    \A b \in storage :
        b.path.dir = "thumbnails" =>
            /\ (b.path.name # b.of) <=> ~ b.native
            /\ b.path.name.ext = "jpg" => b.format = "JPEG"

\* C12: the command never aborts on one record's failure, and the count it
\* writes out at the end is the number of records whose thumbnails were
\* regenerated, not the number of records visited.
C12_BatchCountsSuccesses ==
    /\ cmd.pc # "raised"
    /\ cmd.pc = "done" => cmd.reported = cmd.succeeded

\* r is an integer nearest to n / d
Nearest(r, n, d) == 2 * (r * d - n) \in (0 - d)..d

\* C15: a dimension left to the aspect ratio is resolved to
\* round(sourceOtherDim * targetFixedDim / sourceFixedDim), which is a
\* positive integer; a source of 800x400 and a width of 100 give a height of 50.
C15_DerivedDimension ==
    derive.pc = "fit" =>
        LET w == derive.image_width
            h == derive.image_height
            size == derive.size
            resolved == derive.size_copy
        IN  /\ size[1] # NoneDim /\ size[2] = NoneDim =>
                 /\ resolved[1] = size[1]
                 /\ Nearest(resolved[2], h * size[1], w)
                 /\ resolved[2] >= 1
            /\ size[1] = NoneDim /\ size[2] # NoneDim =>
                 /\ resolved[2] = size[2]
                 /\ Nearest(resolved[1], w * size[2], h)
                 /\ resolved[1] >= 1
            /\ w = 800 /\ h = 400 /\ size = <<100, NoneDim>> =>
                 resolved = <<100, 50>>

\* The blob stored at a path, if there is one
BlobsAt(blobs, path) == {b \in blobs : b.path = path}

\* C20: with a filter, generate_and_save_file_thumbnails writes the rendition
\* of that name only, over the file that was there, and leaves the renditions
\* of every other name as they were; without a filter, a call that makes the
\* thumbnails writes one rendition for every configured name.
C20_OnlyFilteredWritten ==
    [][ /\ \A b \in (storage' \ storage) \cup (storage \ storage') :
             \E n \in ThumbNameSet :
                /\ cmd.name = "none" \/ cmd.name = n
                /\ b.path = UserFileThumbnailPath(cmd.user_file, n)
        /\ \A b \in storage' \ storage : b.by = "command"
        /\ cmd.pc = "loop" /\ cmd'.result = "True" =>
             \A n \in ThumbNameSet :
                LET at == BlobsAt(storage', UserFileThumbnailPath(cmd.user_file, n))
                IN  /\ Cardinality(at) = 1
                    /\ \A b \in at :
                         b.by = IF cmd.name = "none" \/ cmd.name = n
                                THEN "command" ELSE "old"
      ]_vars

\* A run with the filter "tiny" ended having written the tiny rendition of a
\* row whose small rendition is the one that was there before.
C20_Witness ==
    /\ cmd.pc = "done"
    /\ cmd.name = "tiny"
    /\ \E b, c \in storage :
         /\ b.of = c.of
         /\ b.path.thumb = "tiny" /\ b.by = "command"
         /\ c.path.thumb = "small" /\ c.by = "old"

\* How often the row with unique id u was visited
Visits(u) == Cardinality({j \in 1..Len(cmd.visited) : cmd.visited[j] = u})

\* C21: the command terminates and visits each row that is in the table for
\* the whole run exactly once, also when other requests create and delete
\* rows meanwhile: every pass of the while loop takes at least one row, no
\* row is visited twice, and at the end every row that was there at the
\* start and still is has been visited.
C21_TerminatesVisitsOnce ==
    /\ cmd.pc = "for" /\ cmd.k = 1 => Len(cmd.user_files) > 0
    /\ \A j \in 1..Len(cmd.visited) : Visits(cmd.visited[j]) = 1
    /\ cmd.pc = "done" =>
         \A j \in 1..Len(cmd.initial) :
            (\E k \in 1..Len(userFiles) : userFiles[k].unique = cmd.initial[j])
                => Visits(cmd.initial[j]) = 1

\* convert_document_to_image may be called with mimeType for a file that
\* was or was not decoded as an image
ConverterCallAllowed(mimeType, isImage) ==
    /\ mimeType \in THUMBNAIL_MIME_TYPES
    /\ mimeType \in DOCUMENT_CONVERSION_MAP
    /\ mimeType # "application/pdf"
    /\ ~ isImage

\* C22: on every path through generate_and_save_file_thumbnails, from an
\* upload and from the command, convert_document_to_image is called only with
\* a MIME type that is a key of THUMBNAIL_MIME_TYPES and of
\* DOCUMENT_CONVERSION_MAP; PDFs and native images never reach it.
C22_ConverterOnlyInTable ==
    /\ \A p \in Procs :
         proc[p].converterArg # "none" =>
             ConverterCallAllowed(proc[p].converterArg, proc[p].is_image)
    /\ cmd.converterArg # "none" =>
         ConverterCallAllowed(cmd.converterArg, cmd.user_file.is_image)

\* The converter was called for an uploaded presentation, and again when
\* the command came to its row.
C22_Witness ==
    /\ \E p \in Procs :
         proc[p].converterArg = MimeOfExtension("pptx") /\ proc[p].pc = "done"
    /\ cmd.converterArg = MimeOfExtension("pptx")
    /\ cmd.user_file.uploaded_by \in Procs

\* C23: every row of the table has image_width and image_height both set or
\* both None, and set exactly when is_image is true; an upload whose bytes
\* Image.open cannot read goes on with is_image false and both None, and
\* never ends with an exception raised by the classification.
C23_DimensionsIffImage ==
    /\ \A k \in 1..Len(userFiles) :
         /\ userFiles[k].is_image <=> userFiles[k].image_width # NoneDim
         /\ userFiles[k].is_image <=> userFiles[k].image_height # NoneDim
    /\ \A p \in Procs :
         /\ ~ (proc[p].pc = "raised" /\ proc[p].at = "classify")
         /\ Ran(p, "classify") =>
              /\ proc[p].is_image <=> proc[p].image_width # NoneDim
              /\ proc[p].is_image <=> proc[p].image_height # NoneDim

\* Two uploads ran to their end, one of an image and one of bytes that
\* could not be read as an image, and the rows of both are in the table.
C23_Witness ==
    \E p, q \in Procs, j, k \in 1..Len(userFiles) :
        /\ proc[p].pc = "done" /\ proc[q].pc = "done"
        /\ userFiles[j].uploaded_by = p /\ userFiles[j].is_image
        /\ userFiles[j].image_width = 800 /\ userFiles[j].image_height = 400
        /\ userFiles[k].uploaded_by = q /\ ~ userFiles[k].is_image
        /\ userFiles[k].image_width = NoneDim /\ userFiles[k].image_height = NoneDim

=============================================================================
